---- MODULE Spec2Model ----
(***************************************************************************)
(* The neighbor-discovery subsystem of lumol-core (src/lumol-core/src/     *)
(* neighbors): Statistics, Cutoffs, CountDown, the AllPairs backend and    *)
(* the DirectedLinkedList backend, driven by the calls a simulation makes. *)
(*                                                                         *)
(* Lengths are integers and the cell is a one-dimensional periodic box of  *)
(* BoxLength sites, so squared distances and squared cutoffs are exact.    *)
(* A Rust Vec is a function on 0..n-1, so indices are those of the code.   *)
(***************************************************************************)
EXTENDS Integers, Sequences, FiniteSets, TLC

(***************************************************************************)
(* Bounds of the model.                                                    *)
(***************************************************************************)
\* number of sites of the periodic cell
BoxLength == 8
\* the configured max_cutoff and skin, in sites
CfgMaxCutoff == 2
CfgSkin == 1
\* a neighbor list is configured with delay in 0..MaxDelay,
\* steps_per_update_check in 1..MaxStride and updates_per_sanity_check
\* None or Some(1)..Some(MaxSanityPeriod)
MaxDelay == 1
MaxStride == 2
MaxSanityPeriod == 1
\* particles move one site at a time, MaxMoves times in all
MaxMoves == 3
\* ensure_updated is called at most MaxSteps times on the neighbor list
MaxSteps == 3
\* a bare CountDown is configured with delay in 0..MaxCountDownDelay,
\* steps_per_update_check in 1..MaxCountDownStride and
\* updates_per_sanity_check None or Some(1)..Some(MaxCountDownPeriod); it
\* receives at most MaxCalls needs_update_check calls and at most
\* MaxRebuilds needs_sanity_check calls
MaxCountDownDelay == 5
MaxCountDownStride == 3
MaxCountDownPeriod == 3
MaxCalls == 13
MaxRebuilds == 4
\* a static configuration has gaps of 1..MaxStaticGap sites between its
\* particles; its list is configured with delay in 0..MaxStaticDelay and
\* steps_per_update_check in 1..MaxStaticStride and takes at most
\* MaxStaticSteps steps
MaxStaticGap == 3
MaxStaticDelay == 2
MaxStaticStride == 2
MaxStaticSteps == 6
\* particles are added until there are MaxParticles
MaxParticles == 4
\* the original of a clone is at most MaxCloneCalls calls ahead of it, and
\* a particle moves at most MaxCloneMoves sites beside them
MaxCloneCalls == 2
MaxCloneMoves == 2
\* each_i runs on MaxWorkers worker threads
MaxWorkers == 2

(***************************************************************************)
(* Vec<T>: a function on 0..n-1.                                           *)
(***************************************************************************)
VecNew == [k \in {} |-> 0]

VecLen(v) == Cardinality(DOMAIN v)

VecPush(v, x) == [k \in 0..VecLen(v) |-> IF k < VecLen(v) THEN v[k] ELSE x]

VecContains(v, x) == \E k \in DOMAIN v : v[k] = x

Abs(x) == IF x < 0 THEN -x ELSE x

(***************************************************************************)
(* UnitCell (not part of the neighbors module): a cubic periodic cell;     *)
(* distance2 is the squared minimum-image distance.                        *)
(***************************************************************************)
UnitCell_cubic(length) == [length |-> length]

distance2(cell, a, b) ==
    LET d == Abs(a - b) % cell.length
        m == IF cell.length - d < d THEN cell.length - d ELSE d
    IN  m * m

(***************************************************************************)
(* Statistics (statistics.rs)                                              *)
(***************************************************************************)
Statistics_default ==
    [steps |-> 0, update_checks |-> 0, updates |-> 0, sanity_checks |-> 0]

(***************************************************************************)
(* Cutoffs (cutoffs.rs)                                                    *)
(***************************************************************************)
Cutoffs_new(max_cutoff, skin) == [max_cutoff |-> max_cutoff, skin |-> skin]

max_cutoff2(c) == c.max_cutoff * c.max_cutoff

skin2_twice(c) == (2 * c.skin) * (2 * c.skin)

skin2(c) == c.skin * c.skin

update_cutoff2_skin_once(c) ==
    (c.max_cutoff + c.skin) * (c.max_cutoff + c.skin)

update_cutoff2_skin_subtracted(c) ==
    (c.max_cutoff - 2 * c.skin) * (c.max_cutoff - 2 * c.skin)

update_cutoff2(c) ==
    (c.max_cutoff + 2 * c.skin) * (c.max_cutoff + 2 * c.skin)

RECURSIVE needs_update_loop_inclusive(_, _, _, _, _)
needs_update_loop_inclusive(c, snapshot, cell, position, k) ==
    IF k >= VecLen(position)
    THEN [ret |-> FALSE, compared |-> k]
    ELSE IF distance2(cell, snapshot[k], position[k]) >= skin2(c)
         THEN [ret |-> TRUE, compared |-> k + 1]
         ELSE needs_update_loop_inclusive(c, snapshot, cell, position, k + 1)

RECURSIVE needs_update_loop_within(_, _, _, _, _)
needs_update_loop_within(c, snapshot, cell, position, k) ==
    IF k >= VecLen(position)
    THEN [ret |-> FALSE, compared |-> k]
    ELSE IF distance2(cell, snapshot[k], position[k]) < skin2(c)
         THEN [ret |-> TRUE, compared |-> k + 1]
         ELSE needs_update_loop_within(c, snapshot, cell, position, k + 1)

\* The zip loop of needs_update from particle k on: the result and the
\* number of particles compared before it returned.
RECURSIVE needs_update_loop(_, _, _, _, _)
needs_update_loop(c, snapshot, cell, position, k) ==
    IF k >= VecLen(position)
    THEN [ret |-> FALSE, compared |-> k]
    ELSE IF distance2(cell, snapshot[k], position[k]) > skin2(c)
         THEN [ret |-> TRUE, compared |-> k + 1]
         ELSE needs_update_loop(c, snapshot, cell, position, k + 1)

needs_update_never(c, snapshot, cell, parts) ==
    [ret |-> FALSE, compared |-> VecLen(parts.position), panic |-> ""]

needs_update(c, snapshot, cell, parts) ==
    IF VecLen(snapshot) # VecLen(parts.position)
    THEN [ret |-> FALSE, compared |-> 0,
          panic |-> "assertion failed: (left == right)"]
    ELSE LET r == needs_update_loop(c, snapshot, cell, parts.position, 0)
         IN  [ret |-> r.ret, compared |-> r.compared, panic |-> ""]

(***************************************************************************)
(* CountDown (countdown.rs)                                                *)
(***************************************************************************)
None == [some |-> FALSE, val |-> 0]

Some(k) == [some |-> TRUE, val |-> k]

CountDown_new(delay, steps_per_update_check, updates_per_sanity_check) ==
    [delay |-> delay,
     steps_per_update_check |-> steps_per_update_check,
     updates_per_sanity_check |-> updates_per_sanity_check,
     step_counter |-> 0,
     update_counter |-> 0,
     statistics |-> Statistics_default]

needs_update_check_uncounted(cd) ==
    LET c1 == [cd EXCEPT !.step_counter = @ + 1, !.statistics.steps = @ + 1]
    IN  IF c1.step_counter < c1.delay + 1
        THEN [cd |-> c1, ret |-> FALSE, panic |-> ""]
        ELSE IF c1.steps_per_update_check = 0
        THEN [cd |-> c1, ret |-> FALSE,
              panic |-> "attempt to calculate the remainder with a divisor of zero"]
        ELSE IF (c1.step_counter - (c1.delay + 1)) % c1.steps_per_update_check = 0
        THEN [cd |-> c1, ret |-> TRUE, panic |-> ""]
        ELSE [cd |-> c1, ret |-> FALSE, panic |-> ""]

needs_update_check_no_delay(cd) ==
    LET c1 == [cd EXCEPT !.step_counter = @ + 1, !.statistics.steps = @ + 1]
    IN  IF c1.step_counter < c1.delay
        THEN [cd |-> c1, ret |-> FALSE, panic |-> ""]
        ELSE IF c1.steps_per_update_check = 0
        THEN [cd |-> c1, ret |-> FALSE,
              panic |-> "attempt to calculate the remainder with a divisor of zero"]
        ELSE IF (c1.step_counter - c1.delay) % c1.steps_per_update_check = 0
        THEN [cd |-> [c1 EXCEPT !.statistics.update_checks = @ + 1],
              ret |-> TRUE, panic |-> ""]
        ELSE [cd |-> c1, ret |-> FALSE, panic |-> ""]

needs_update_check_late(cd) ==
    LET c1 == [cd EXCEPT !.step_counter = @ + 1, !.statistics.steps = @ + 1]
    IN  IF c1.step_counter < c1.delay + 2
        THEN [cd |-> c1, ret |-> FALSE, panic |-> ""]
        ELSE IF c1.steps_per_update_check = 0
        THEN [cd |-> c1, ret |-> FALSE,
              panic |-> "attempt to calculate the remainder with a divisor of zero"]
        ELSE IF (c1.step_counter - (c1.delay + 2)) % c1.steps_per_update_check = 0
        THEN [cd |-> [c1 EXCEPT !.statistics.update_checks = @ + 1],
              ret |-> TRUE, panic |-> ""]
        ELSE [cd |-> c1, ret |-> FALSE, panic |-> ""]

needs_update_check(cd) ==
    LET c1 == [cd EXCEPT !.step_counter = @ + 1, !.statistics.steps = @ + 1]
    IN  \* checked_sub(delay + 1) is None: still inside the delay window
        IF c1.step_counter < c1.delay + 1
        THEN [cd |-> c1, ret |-> FALSE, panic |-> ""]
        ELSE IF c1.steps_per_update_check = 0
        THEN [cd |-> c1, ret |-> FALSE,
              panic |-> "attempt to calculate the remainder with a divisor of zero"]
        ELSE IF (c1.step_counter - (c1.delay + 1)) % c1.steps_per_update_check = 0
        THEN [cd |-> [c1 EXCEPT !.statistics.update_checks = @ + 1],
              ret |-> TRUE, panic |-> ""]
        ELSE [cd |-> c1, ret |-> FALSE, panic |-> ""]

needs_sanity_check_keeps_steps(cd) ==
    LET c1 == [cd EXCEPT !.update_counter = @ + 1,
                         !.statistics.updates = @ + 1]
    IN  IF ~c1.updates_per_sanity_check.some
        THEN [cd |-> c1, ret |-> FALSE, panic |-> ""]
        ELSE IF c1.updates_per_sanity_check.val = 0
        THEN [cd |-> c1, ret |-> FALSE,
              panic |-> "attempt to calculate the remainder with a divisor of zero"]
        ELSE IF c1.update_counter % c1.updates_per_sanity_check.val = 0
        THEN [cd |-> [c1 EXCEPT !.statistics.sanity_checks = @ + 1,
                                !.update_counter = 0],
              ret |-> TRUE, panic |-> ""]
        ELSE [cd |-> c1, ret |-> FALSE, panic |-> ""]

needs_sanity_check_keeps_counter(cd) ==
    LET c1 == [cd EXCEPT !.step_counter = 0,
                         !.update_counter = @ + 1,
                         !.statistics.updates = @ + 1]
    IN  IF ~c1.updates_per_sanity_check.some
        THEN [cd |-> c1, ret |-> FALSE, panic |-> ""]
        ELSE IF c1.updates_per_sanity_check.val = 0
        THEN [cd |-> c1, ret |-> FALSE,
              panic |-> "attempt to calculate the remainder with a divisor of zero"]
        ELSE IF c1.update_counter % c1.updates_per_sanity_check.val = 0
        THEN [cd |-> [c1 EXCEPT !.statistics.sanity_checks = @ + 1,
                                !.update_counter = 1],
              ret |-> TRUE, panic |-> ""]
        ELSE [cd |-> c1, ret |-> FALSE, panic |-> ""]

needs_sanity_check(cd) ==
    LET c1 == [cd EXCEPT !.step_counter = 0,
                         !.update_counter = @ + 1,
                         !.statistics.updates = @ + 1]
    IN  IF ~c1.updates_per_sanity_check.some
        THEN [cd |-> c1, ret |-> FALSE, panic |-> ""]
        ELSE IF c1.updates_per_sanity_check.val = 0
        THEN [cd |-> c1, ret |-> FALSE,
              panic |-> "attempt to calculate the remainder with a divisor of zero"]
        ELSE IF c1.update_counter % c1.updates_per_sanity_check.val = 0
        THEN [cd |-> [c1 EXCEPT !.statistics.sanity_checks = @ + 1,
                                !.update_counter = 0],
              ret |-> TRUE, panic |-> ""]
        ELSE [cd |-> c1, ret |-> FALSE, panic |-> ""]

(***************************************************************************)
(* AllPairs (all_pairs.rs)                                                 *)
(***************************************************************************)
AllPairs_new == [natoms |-> 0, initialized |-> FALSE]

AllPairs_update_neighbors(self, cell, parts) ==
    [self EXCEPT !.natoms = VecLen(parts.position), !.initialized = TRUE]

AllPairs_ensure_updated(self, cell, parts) ==
    AllPairs_update_neighbors(self, cell, parts)

\* The pairs (i, j) a caller visits with each_i(|i| each_j(i, |j| ..)).
AllPairs_pairs(self) ==
    {<<i, j>> \in (0..self.natoms - 1) \X (0..self.natoms - 1) : j < i}

(***************************************************************************)
(* DirectedLinkedList (directed_linked_list.rs)                            *)
(***************************************************************************)
DirectedLinkedList_new(cd, c) ==
    [countdown |-> cd,
     cutoffs |-> c,
     initialized |-> FALSE,
     edges |-> VecNew,
     position_snapshot |-> VecNew]

\* One entry of the record of calls a handler made: the function, what it
\* returned, the panic it ended in ("" for none) and, for sanity_check,
\* the edges it audited.
Call(fn, ret, msg, seen) ==
    [fn |-> fn, ret |-> ret, panic |-> msg, edges |-> seen]

\* The loops of sanity_check from the pair (i, j) on: the first pair within
\* max_cutoff that entry i lacks ends the process.
RECURSIVE sanity_check_loop_inclusive(_, _, _, _, _)
sanity_check_loop_inclusive(self, cell, position, i, j) ==
    IF i >= VecLen(position)
    THEN [panic |-> "", i |-> i, j |-> 0]
    ELSE IF j >= i
    THEN sanity_check_loop_inclusive(self, cell, position, i + 1, 0)
    ELSE IF distance2(cell, position[i], position[j]) <= max_cutoff2(self.cutoffs)
    THEN IF i \notin DOMAIN self.edges
         THEN [panic |-> "index out of bounds", i |-> i, j |-> j]
         ELSE IF ~VecContains(self.edges[i], j)
         THEN [panic |-> "Invalid neighborlist", i |-> i, j |-> j]
         ELSE sanity_check_loop_inclusive(self, cell, position, i, j + 1)
    ELSE sanity_check_loop_inclusive(self, cell, position, i, j + 1)


RECURSIVE sanity_check_loop(_, _, _, _, _)
sanity_check_loop(self, cell, position, i, j) ==
    IF i >= VecLen(position)
    THEN [panic |-> "", i |-> i, j |-> 0]
    ELSE IF j >= i
    THEN sanity_check_loop(self, cell, position, i + 1, 0)
    ELSE IF distance2(cell, position[i], position[j]) < max_cutoff2(self.cutoffs)
    THEN IF i \notin DOMAIN self.edges
         THEN [panic |-> "index out of bounds", i |-> i, j |-> j]
         ELSE IF ~VecContains(self.edges[i], j)
         THEN [panic |-> "Invalid neighborlist", i |-> i, j |-> j]
         ELSE sanity_check_loop(self, cell, position, i, j + 1)
    ELSE sanity_check_loop(self, cell, position, i, j + 1)

sanity_check(self, cell, parts) ==
    sanity_check_loop(self, cell, parts.position, 0, 0)

\* The inner loop of update_neighbors from j on: ni collects the j < i
\* closer to i than the update cutoff.
RECURSIVE update_neighbors_inner_inclusive(_, _, _, _, _, _)
update_neighbors_inner_inclusive(self, cell, position, i, j, ni) ==
    IF j > i
    THEN ni
    ELSE update_neighbors_inner_inclusive(self, cell, position, i, j + 1,
            IF distance2(cell, position[i], position[j]) < update_cutoff2(self.cutoffs)
            THEN VecPush(ni, j)
            ELSE ni)

RECURSIVE update_neighbors_inner_symmetric(_, _, _, _, _, _)
update_neighbors_inner_symmetric(self, cell, position, i, j, ni) ==
    IF j >= VecLen(position)
    THEN ni
    ELSE update_neighbors_inner_symmetric(self, cell, position, i, j + 1,
            IF j # i /\ distance2(cell, position[i], position[j]) < update_cutoff2(self.cutoffs)
            THEN VecPush(ni, j)
            ELSE ni)


RECURSIVE update_neighbors_inner_descending(_, _, _, _, _, _)
update_neighbors_inner_descending(self, cell, position, i, j, ni) ==
    IF j >= i
    THEN ni
    ELSE update_neighbors_inner_descending(self, cell, position, i, j + 1,
            IF distance2(cell, position[i], position[i - 1 - j]) < update_cutoff2(self.cutoffs)
            THEN VecPush(ni, i - 1 - j)
            ELSE ni)


RECURSIVE update_neighbors_inner(_, _, _, _, _, _)
update_neighbors_inner(self, cell, position, i, j, ni) ==
    IF j >= i
    THEN ni
    ELSE update_neighbors_inner(self, cell, position, i, j + 1,
            IF distance2(cell, position[i], position[j]) < update_cutoff2(self.cutoffs)
            THEN VecPush(ni, j)
            ELSE ni)

\* The outer loop of update_neighbors from i on.
RECURSIVE update_neighbors_outer(_, _, _, _, _)
update_neighbors_outer(self, cell, position, i, es) ==
    IF i >= VecLen(position)
    THEN es
    ELSE update_neighbors_outer(self, cell, position, i + 1,
            VecPush(es, update_neighbors_inner(self, cell, position, i, 0, VecNew)))

update_neighbors_appending(self, cell, parts) ==
    [self EXCEPT
        !.edges = update_neighbors_outer(self, cell, parts.position, 0, self.edges),
        !.position_snapshot = parts.position,
        !.initialized = TRUE]


update_neighbors_extending_snapshot(self, cell, parts) ==
    [self EXCEPT
        !.edges = update_neighbors_outer(self, cell, parts.position, 0, VecNew),
        !.position_snapshot =
            [k \in 0..VecLen(self.position_snapshot) + VecLen(parts.position) - 1 |->
                IF k < VecLen(self.position_snapshot)
                THEN self.position_snapshot[k]
                ELSE parts.position[k - VecLen(self.position_snapshot)]],
        !.initialized = TRUE]


update_neighbors_stale_snapshot(self, cell, parts) ==
    [self EXCEPT
        !.edges = update_neighbors_outer(self, cell, parts.position, 0, VecNew),
        !.initialized = TRUE]

update_neighbors(self, cell, parts) ==
    [self EXCEPT
        !.edges = update_neighbors_outer(self, cell, parts.position, 0, VecNew),
        !.position_snapshot = parts.position,
        !.initialized = TRUE]

ensure_updated_ungated(self, cell, parts) ==
    LET chk == needs_update_check(self.countdown)
        s1  == [self EXCEPT !.countdown = chk.cd]
        c1  == <<Call("needs_update_check", chk.ret, chk.panic, VecNew)>>
    IN  IF chk.panic # "" \/ ~chk.ret
        THEN [self |-> s1, panic |-> chk.panic, calls |-> c1]
        ELSE
        LET upd == needs_update(s1.cutoffs, s1.position_snapshot, cell, parts)
            c2  == Append(c1, Call("needs_update", upd.ret, upd.panic, VecNew))
        IN  IF upd.panic # ""
            THEN [self |-> s1, panic |-> upd.panic, calls |-> c2]
            ELSE
            LET san == needs_sanity_check(s1.countdown)
                s2  == [s1 EXCEPT !.countdown = san.cd]
                c3  == Append(c2, Call("needs_sanity_check", san.ret, san.panic, VecNew))
            IN  IF san.panic # ""
                THEN [self |-> s2, panic |-> san.panic, calls |-> c3]
                ELSE
                LET audit == IF san.ret
                             THEN sanity_check(s2, cell, parts)
                             ELSE [panic |-> "", i |-> 0, j |-> 0]
                    c4 == IF san.ret
                          THEN Append(c3, Call("sanity_check", TRUE, audit.panic, s2.edges))
                          ELSE c3
                IN  IF audit.panic # ""
                    THEN [self |-> s2, panic |-> audit.panic, calls |-> c4]
                    ELSE [self |-> update_neighbors(s2, cell, parts),
                          panic |-> "",
                          calls |-> Append(c4, Call("update_neighbors", TRUE, "", VecNew))]

ensure_updated_audit_after(self, cell, parts) ==
    LET chk == needs_update_check(self.countdown)
        s1  == [self EXCEPT !.countdown = chk.cd]
        c1  == <<Call("needs_update_check", chk.ret, chk.panic, VecNew)>>
    IN  IF chk.panic # "" \/ ~chk.ret
        THEN [self |-> s1, panic |-> chk.panic, calls |-> c1]
        ELSE
        LET upd == needs_update(s1.cutoffs, s1.position_snapshot, cell, parts)
            c2  == Append(c1, Call("needs_update", upd.ret, upd.panic, VecNew))
        IN  IF upd.panic # "" \/ ~upd.ret
            THEN [self |-> s1, panic |-> upd.panic, calls |-> c2]
            ELSE
            LET san == needs_sanity_check(s1.countdown)
                s2  == [s1 EXCEPT !.countdown = san.cd]
                c3  == Append(c2, Call("needs_sanity_check", san.ret, san.panic, VecNew))
            IN  IF san.panic # ""
                THEN [self |-> s2, panic |-> san.panic, calls |-> c3]
                ELSE
                LET s3 == update_neighbors(s2, cell, parts)
                    c4 == Append(c3, Call("update_neighbors", TRUE, "", VecNew))
                    audit == IF san.ret
                             THEN sanity_check(s3, cell, parts)
                             ELSE [panic |-> "", i |-> 0, j |-> 0]
                IN  [self |-> s3,
                     panic |-> audit.panic,
                     calls |-> IF san.ret
                               THEN Append(c4, Call("sanity_check", TRUE, audit.panic, s3.edges))
                               ELSE c4]

ensure_updated(self, cell, parts) ==
    LET chk == needs_update_check(self.countdown)
        s1  == [self EXCEPT !.countdown = chk.cd]
        c1  == <<Call("needs_update_check", chk.ret, chk.panic, VecNew)>>
    IN  IF chk.panic # "" \/ ~chk.ret
        THEN [self |-> s1, panic |-> chk.panic, calls |-> c1]
        ELSE
        LET upd == needs_update(s1.cutoffs, s1.position_snapshot, cell, parts)
            c2  == Append(c1, Call("needs_update", upd.ret, upd.panic, VecNew))
        IN  IF upd.panic # "" \/ ~upd.ret
            THEN [self |-> s1, panic |-> upd.panic, calls |-> c2]
            ELSE
            LET san == needs_sanity_check(s1.countdown)
                s2  == [s1 EXCEPT !.countdown = san.cd]
                c3  == Append(c2, Call("needs_sanity_check", san.ret, san.panic, VecNew))
            IN  IF san.panic # ""
                THEN [self |-> s2, panic |-> san.panic, calls |-> c3]
                ELSE
                LET audit == IF san.ret
                             THEN sanity_check(s2, cell, parts)
                             ELSE [panic |-> "", i |-> 0, j |-> 0]
                    c4 == IF san.ret
                          THEN Append(c3, Call("sanity_check", TRUE, audit.panic, s2.edges))
                          ELSE c3
                IN  IF audit.panic # ""
                    THEN [self |-> s2, panic |-> audit.panic, calls |-> c4]
                    ELSE [self |-> update_neighbors(s2, cell, parts),
                          panic |-> "",
                          calls |-> Append(c4, Call("update_neighbors", TRUE, "", VecNew))]

\* The pairs (i, j) a caller visits with each_i(|i| each_j(i, |j| ..)).
DirectedLinkedList_pairs(self) ==
    UNION {{<<i, self.edges[i][k]>> : k \in DOMAIN self.edges[i]} :
                i \in DOMAIN self.edges}

(***************************************************************************)
(* State: a system's particles, the DirectedLinkedList it holds (one       *)
(* variable per field), an AllPairs list over the same particles, and the  *)
(* panic the process ended in ("" while it runs).                          *)
(***************************************************************************)
VARIABLES
    countdown,          \* DirectedLinkedList.countdown
    cutoffs,            \* DirectedLinkedList.cutoffs
    initialized,        \* DirectedLinkedList.initialized
    edges,              \* DirectedLinkedList.edges
    position_snapshot,  \* DirectedLinkedList.position_snapshot
    all_pairs,          \* the AllPairs list
    particles,          \* ParticleVec: position
    panic,              \* message of the panic that ended the process
    calls,              \* the calls the last operation made, in order
    results,            \* what needs_update_check returned, call by call,
                        \* since construction or the last needs_sanity_check
    tally,              \* calls of the CountDown and how many returned true
    moves,              \* number of particle moves so far
    cloned,             \* the clone of the Directed list, once one is made
    traversal           \* the each_i call in flight, its worker threads

vars == <<countdown, cutoffs, initialized, edges, position_snapshot,
          all_pairs, particles, panic, calls, results, tally, moves,
          cloned, traversal>>

\* No each_i call is in flight.
NoTraversal ==
    [active |-> FALSE, backend |-> "", pending |-> {}, running |-> {},
     visits |-> <<>>, acc |-> <<>>, order |-> <<>>]

cell == UnitCell_cubic(BoxLength)

Self ==
    [countdown |-> countdown,
     cutoffs |-> cutoffs,
     initialized |-> initialized,
     edges |-> edges,
     position_snapshot |-> position_snapshot]

\* The calls of needs_update_check in cs extend the results; a call of
\* needs_sanity_check starts them afresh.
RECURSIVE ResultsAfter(_, _)
ResultsAfter(res, cs) ==
    IF cs = <<>>
    THEN res
    ELSE LET c == Head(cs)
         IN  ResultsAfter(
                IF c.fn = "needs_update_check" /\ c.panic = ""
                THEN Append(res, c.ret)
                ELSE IF c.fn = "needs_sanity_check" THEN <<>> ELSE res,
                Tail(cs))

RECURSIVE TallyAfter(_, _)
TallyAfter(t, cs) ==
    IF cs = <<>>
    THEN t
    ELSE LET c == Head(cs)
             hit == IF c.ret /\ c.panic = "" THEN 1 ELSE 0
         IN  TallyAfter(
                IF c.fn = "needs_update_check"
                THEN [t EXCEPT !.update_check_calls = @ + 1,
                               !.update_check_true = @ + hit]
                ELSE IF c.fn = "needs_sanity_check"
                THEN [t EXCEPT !.sanity_calls = @ + 1,
                               !.sanity_true = @ + hit]
                ELSE t,
                Tail(cs))

\* The particles of the system: a lattice like that of the example, in one
\* dimension.
LatticeSites == <<0, 2, 4>>

Lattice ==
    [position |-> [i \in 0..Len(LatticeSites) - 1 |-> LatticeSites[i + 1] % BoxLength]]

\* The system holding the list nl.
InitWith(nl) ==
    /\ countdown = nl.countdown
    /\ cutoffs = nl.cutoffs
    /\ initialized = nl.initialized
    /\ edges = nl.edges
    /\ position_snapshot = nl.position_snapshot
    /\ all_pairs = AllPairs_new
    /\ particles = Lattice
    /\ panic = ""
    /\ calls = <<>>
    /\ results = <<>>
    /\ tally = [update_check_calls |-> 0, update_check_true |-> 0,
                sanity_calls |-> 0, sanity_true |-> 0]
    /\ moves = 0
    /\ cloned = None
    /\ traversal = NoTraversal

\* Neighbors::new_directed_linkedlist and Neighbors::new_all_pairs on a
\* lattice of particles.
Init ==
    \E delay \in 0..MaxDelay, stride \in 1..MaxStride,
       period \in {None} \cup {Some(k) : k \in 1..MaxSanityPeriod} :
        InitWith(DirectedLinkedList_new(
                    CountDown_new(delay, stride, period),
                    Cutoffs_new(CfgMaxCutoff, CfgSkin)))

\* CountDown::new, as the list's countdown.
InitCountDown ==
    \E delay \in 0..MaxCountDownDelay, stride \in 1..MaxCountDownStride,
       period \in {None} \cup {Some(k) : k \in 1..MaxCountDownPeriod} :
        InitWith(DirectedLinkedList_new(
                    CountDown_new(delay, stride, period),
                    Cutoffs_new(CfgMaxCutoff, CfgSkin)))

\* The list after a handler returned r.self having made the calls r.calls,
\* or panicked with r.panic.
Commit(r) ==
    /\ countdown' = r.self.countdown
    /\ cutoffs' = r.self.cutoffs
    /\ initialized' = r.self.initialized
    /\ edges' = r.self.edges
    /\ position_snapshot' = r.self.position_snapshot
    /\ panic' = r.panic
    /\ calls' = r.calls
    /\ results' = ResultsAfter(results, r.calls)
    /\ tally' = TallyAfter(tally, r.calls)

\* neighbors.ensure_updated(cell, particles) on the Directed list
EnsureUpdated ==
    /\ panic = ""
    /\ countdown.statistics.steps < MaxSteps
    /\ Commit(ensure_updated(Self, cell, particles))
    /\ UNCHANGED <<cloned, traversal, all_pairs, particles, moves>>

\* neighbors.update_neighbors(cell, particles) on the Directed list
UpdateNeighbors ==
    /\ panic = ""
    /\ Commit([self |-> update_neighbors(Self, cell, particles),
               panic |-> "",
               calls |-> <<Call("update_neighbors", TRUE, "", VecNew)>>])
    /\ UNCHANGED <<cloned, traversal, all_pairs, particles, moves>>

\* DirectedLinkedList::sanity_check(cell, particles), called directly
SanityCheck ==
    /\ panic = ""
    /\ LET audit == sanity_check(Self, cell, particles)
       IN  Commit([self |-> Self,
                   panic |-> audit.panic,
                   calls |-> <<Call("sanity_check", TRUE, audit.panic, edges)>>])
    /\ UNCHANGED <<cloned, traversal, all_pairs, particles, moves>>

\* neighbors.ensure_updated(cell, particles) on the AllPairs list
AllPairsEnsureUpdated ==
    /\ panic = ""
    /\ all_pairs' = AllPairs_ensure_updated(all_pairs, cell, particles)
    /\ calls' = <<Call("AllPairs::update_neighbors", TRUE, "", VecNew)>>
    /\ UNCHANGED <<cloned, traversal, countdown, cutoffs, initialized, edges, position_snapshot,
                   particles, panic, results, tally, moves>>

\* The integrator moves particle i by one site, d = -1 or +1.
Move ==
    /\ panic = ""
    /\ moves < MaxMoves
    /\ \E i \in DOMAIN particles.position, d \in {-1, 1} :
            particles' = [particles EXCEPT
                !.position[i] = (@ + d + BoxLength) % BoxLength]
    /\ moves' = moves + 1
    /\ calls' = <<>>
    /\ UNCHANGED <<cloned, traversal, countdown, cutoffs, initialized, edges, position_snapshot,
                   all_pairs, panic, results, tally>>

Next ==
    \/ EnsureUpdated
    \/ UpdateNeighbors
    \/ SanityCheck
    \/ Move

\* Any sequence of calls on the lists, with particle motion in between.
Spec == Init /\ [][Next]_vars

\* The molecular dynamics loop: the list is built once, then each step
\* moves particles and calls ensure_updated.
MDNext ==
    \/ ~initialized /\ UpdateNeighbors
    \/ initialized /\ EnsureUpdated
    \/ initialized /\ Move
    \/ AllPairsEnsureUpdated

SpecMD == Init /\ [][MDNext]_vars

\* countdown.needs_update_check() on a bare CountDown
NeedsUpdateCheck ==
    /\ panic = ""
    /\ countdown.statistics.steps < MaxCalls
    /\ LET r == needs_update_check(countdown)
       IN  Commit([self |-> [Self EXCEPT !.countdown = r.cd],
                   panic |-> r.panic,
                   calls |-> <<Call("needs_update_check", r.ret, r.panic, VecNew)>>])
    /\ UNCHANGED <<cloned, traversal, all_pairs, particles, moves>>

\* countdown.needs_sanity_check() on a bare CountDown
NeedsSanityCheck ==
    /\ panic = ""
    /\ countdown.statistics.updates < MaxRebuilds
    /\ LET r == needs_sanity_check(countdown)
       IN  Commit([self |-> [Self EXCEPT !.countdown = r.cd],
                   panic |-> r.panic,
                   calls |-> <<Call("needs_sanity_check", r.ret, r.panic, VecNew)>>])
    /\ UNCHANGED <<cloned, traversal, all_pairs, particles, moves>>

CountDownNext ==
    \/ NeedsUpdateCheck
    \/ NeedsSanityCheck

\* Any interleaving of needs_update_check and needs_sanity_check calls.
SpecCountDown == InitCountDown /\ [][CountDownNext]_vars

(***************************************************************************)
(* Enumeration: what each_i and each_j hand to the visitor, and the panic  *)
(* they end in.  each_i runs the visitor in parallel, so what it visits is *)
(* a set; each_j visits in sequence.                                       *)
(***************************************************************************)
NotInitialized == "The neighbors object wastn't initialized. use ensure_updated"

AllPairs_each_i(self) ==
    IF ~self.initialized
    THEN [self |-> self, panic |-> NotInitialized, visited |-> {}]
    ELSE [self |-> self, panic |-> "", visited |-> 0..self.natoms - 1]

AllPairs_each_j(self, i) ==
    [self |-> self, panic |-> "", visited |-> [k \in 0..i - 1 |-> k]]

\* AllPairs::print_statistics has an empty body
AllPairs_print_statistics(self) ==
    [self |-> self, panic |-> "", printed |-> <<>>]

DirectedLinkedList_each_i_skipping_last(self) ==
    IF ~self.initialized
    THEN [self |-> self, panic |-> NotInitialized, visited |-> {}]
    ELSE [self |-> self, panic |-> "", visited |-> 0..VecLen(self.edges) - 2]

DirectedLinkedList_each_i(self) ==
    IF ~self.initialized
    THEN [self |-> self, panic |-> NotInitialized, visited |-> {}]
    ELSE [self |-> self, panic |-> "", visited |-> 0..VecLen(self.edges) - 1]

DirectedLinkedList_each_j_lenient(self, i) ==
    IF i \notin DOMAIN self.edges
    THEN [self |-> self, panic |-> "", visited |-> VecNew]
    ELSE [self |-> self, panic |-> "", visited |-> self.edges[i]]

DirectedLinkedList_each_j(self, i) ==
    IF i \notin DOMAIN self.edges
    THEN [self |-> self, panic |-> "called Option::unwrap() on a None value",
          visited |-> VecNew]
    ELSE [self |-> self, panic |-> "", visited |-> self.edges[i]]

DirectedLinkedList_print_statistics_resetting(self) ==
    [self |-> [self EXCEPT !.countdown.statistics = Statistics_default],
     panic |-> "",
     printed |-> <<self.countdown.statistics>>]

\* println!("{}", self.countdown.statistics()): the four counters are
\* printed; the ratios are floating-point divisions, which do not fail.
DirectedLinkedList_print_statistics(self) ==
    [self |-> self, panic |-> "",
     printed |-> <<self.countdown.statistics>>]

\* The outcome r of a method of the Directed list that takes &self.
DirectedRead(fn, r, out) ==
    /\ panic = ""
    /\ countdown' = r.self.countdown
    /\ cutoffs' = r.self.cutoffs
    /\ initialized' = r.self.initialized
    /\ edges' = r.self.edges
    /\ position_snapshot' = r.self.position_snapshot
    /\ panic' = r.panic
    /\ calls' = <<Call(fn, TRUE, r.panic, out)>>
    /\ UNCHANGED <<cloned, traversal, all_pairs, particles, results, tally,
                   moves>>

\* The outcome r of a method of the AllPairs list that takes &self.
AllPairsRead(fn, r, out) ==
    /\ panic = ""
    /\ all_pairs' = r.self
    /\ panic' = r.panic
    /\ calls' = <<Call(fn, TRUE, r.panic, out)>>
    /\ UNCHANGED <<cloned, traversal, countdown, cutoffs, initialized, edges,
                   position_snapshot, particles, results, tally, moves>>

\* neighbors.each_i(op) on the Directed list
DirectedEachI ==
    LET r == DirectedLinkedList_each_i(Self)
    IN  DirectedRead("DirectedLinkedList::each_i", r, [visited |-> r.visited])

\* neighbors.each_j(i, op) on the Directed list
DirectedEachJ ==
    \E i \in 0..VecLen(particles.position) :
        LET r == DirectedLinkedList_each_j(Self, i)
        IN  DirectedRead("DirectedLinkedList::each_j", r,
                         [i |-> i, visited |-> r.visited])

\* neighbors.print_statistics() on the Directed list
DirectedPrintStatistics ==
    LET r == DirectedLinkedList_print_statistics(Self)
    IN  DirectedRead("DirectedLinkedList::print_statistics", r,
                     [printed |-> r.printed])

\* neighbors.each_i(op) on the AllPairs list
AllPairsEachI ==
    LET r == AllPairs_each_i(all_pairs)
    IN  AllPairsRead("AllPairs::each_i", r, [visited |-> r.visited])

\* neighbors.each_j(i, op) on the AllPairs list
AllPairsEachJ ==
    \E i \in 0..VecLen(particles.position) :
        LET r == AllPairs_each_j(all_pairs, i)
        IN  AllPairsRead("AllPairs::each_j", r,
                         [i |-> i, visited |-> r.visited])

\* neighbors.print_statistics() on the AllPairs list
AllPairsPrintStatistics ==
    LET r == AllPairs_print_statistics(all_pairs)
    IN  AllPairsRead("AllPairs::print_statistics", r, [printed |-> r.printed])

(***************************************************************************)
(* A static configuration: three particles at rest, the gaps between them  *)
(* 1..MaxStaticGap sites, and both lists over them.                        *)
(***************************************************************************)
StaticParticles(a, b) ==
    [position |-> [i \in 0..2 |-> IF i = 0 THEN 0
                                  ELSE IF i = 1 THEN a % BoxLength
                                  ELSE (a + b) % BoxLength]]

InitStatic ==
    \E delay \in 0..MaxStaticDelay, stride \in 1..MaxStaticStride,
       period \in {None} \cup {Some(k) : k \in 1..MaxSanityPeriod},
       a \in 1..MaxStaticGap, b \in 1..MaxStaticGap :
        LET nl == DirectedLinkedList_new(
                    CountDown_new(delay, stride, period),
                    Cutoffs_new(CfgMaxCutoff, CfgSkin))
        IN  /\ countdown = nl.countdown
            /\ cutoffs = nl.cutoffs
            /\ initialized = nl.initialized
            /\ edges = nl.edges
            /\ position_snapshot = nl.position_snapshot
            /\ all_pairs = AllPairs_new
            /\ particles = StaticParticles(a, b)
            /\ panic = ""
            /\ calls = <<>>
            /\ results = <<>>
            /\ tally = [update_check_calls |-> 0, update_check_true |-> 0,
                        sanity_calls |-> 0, sanity_true |-> 0]
            /\ moves = 0
            /\ cloned = None
            /\ traversal = NoTraversal

\* One zero-velocity step: ensure_updated on the built Directed list.
StaticStep ==
    /\ panic = ""
    /\ initialized
    /\ countdown.statistics.steps < MaxStaticSteps
    /\ Commit(ensure_updated(Self, cell, particles))
    /\ UNCHANGED <<cloned, traversal, all_pairs, particles, moves>>

StaticNext ==
    \/ ~initialized /\ UpdateNeighbors
    \/ StaticStep
    \/ AllPairsEnsureUpdated
    \/ DirectedEachI
    \/ DirectedEachJ
    \/ AllPairsEachI
    \/ AllPairsEachJ
    \/ DirectedPrintStatistics
    \/ AllPairsPrintStatistics

\* The lists are built once over particles that never move, then stepped
\* and enumerated.
SpecStatic == InitStatic /\ [][StaticNext]_vars

\* Neighbors::new_directed_linkedlist: the Directed list it returns.  No
\* argument is examined.
new_directed_linkedlist(max_cutoff, skin, delay, stride, period) ==
    LET countdown_ == CountDown_new(delay, stride, period)
        cutoffs_   == Cutoffs_new(max_cutoff, skin)
    IN  DirectedLinkedList_new(countdown_, cutoffs_)

\* A list constructed with any arguments: skin negative, zero or positive,
\* steps_per_update_check from 0, updates_per_sanity_check None or from
\* Some(0).
InitConfig ==
    \E skin \in -1..CfgSkin, delay \in 0..MaxDelay, stride \in 0..MaxStride,
       period \in {None} \cup {Some(k) : k \in 0..MaxSanityPeriod} :
        InitWith(new_directed_linkedlist(CfgMaxCutoff, skin, delay, stride, period))

\* The molecular dynamics loop on a list of any configuration.
SpecConfig == InitConfig /\ [][MDNext]_vars

\* system.add_molecule: one more particle, at site s.
AddParticle ==
    /\ panic = ""
    /\ VecLen(particles.position) < MaxParticles
    /\ \E s \in 0..BoxLength - 1 :
        particles' = [particles EXCEPT !.position = VecPush(@, s)]
    /\ calls' = <<>>
    /\ UNCHANGED <<cloned, traversal, countdown, cutoffs, initialized, edges, position_snapshot,
                   all_pairs, panic, results, tally, moves>>

ResizeNext ==
    \/ UpdateNeighbors
    \/ EnsureUpdated
    \/ AddParticle

\* Builds and steps of the Directed list while particles are added.
SpecResize == Init /\ [][ResizeNext]_vars

FrameNext ==
    \/ ~initialized /\ UpdateNeighbors
    \/ initialized /\ EnsureUpdated
    \/ initialized /\ SanityCheck
    \/ initialized /\ Move
    \/ AllPairsEnsureUpdated

\* The molecular dynamics loop on both backends, with sanity_check called
\* directly as well.
SpecFrame == Init /\ [][FrameNext]_vars

(***************************************************************************)
(* Clone: Neighbors, DirectedLinkedList, CountDown and Cutoffs derive      *)
(* Clone, so a clone owns a copy of every field.  The clone receives calls *)
(* of its own.  ahead lists the calls the original has received and the    *)
(* clone has not yet; the copies have diverged once the clone receives a   *)
(* call other than the next of these.                                      *)
(***************************************************************************)
DirectedLinkedList_clone_fresh_countdown(self) ==
    [countdown |-> CountDown_new(self.countdown.delay,
                                 self.countdown.steps_per_update_check,
                                 self.countdown.updates_per_sanity_check),
     cutoffs |-> self.cutoffs,
     initialized |-> self.initialized,
     edges |-> self.edges,
     position_snapshot |-> self.position_snapshot]

DirectedLinkedList_clone(self) ==
    [countdown |-> self.countdown,
     cutoffs |-> self.cutoffs,
     initialized |-> self.initialized,
     edges |-> self.edges,
     position_snapshot |-> self.position_snapshot]

\* neighbors.clone()
CloneList ==
    /\ panic = ""
    /\ ~cloned.some
    /\ cloned' = Some([self |-> DirectedLinkedList_clone(Self),
                       ahead |-> <<>>, diverged |-> FALSE])
    /\ UNCHANGED <<countdown, cutoffs, initialized, edges, position_snapshot,
                   all_pairs, particles, panic, calls, results, tally, moves,
                   traversal>>

\* The original receives the call fn, whose outcome is r.
OriginalCall(fn, r) ==
    /\ panic = ""
    /\ cloned.some => Len(cloned.val.ahead) < MaxCloneCalls
    /\ Commit(r)
    /\ cloned' = IF cloned.some /\ ~cloned.val.diverged
                 THEN [cloned EXCEPT !.val.ahead = Append(@, fn)]
                 ELSE cloned
    /\ UNCHANGED <<all_pairs, particles, moves, traversal>>

\* The clone receives the call fn, whose outcome is r.
CloneCall(fn, r) ==
    /\ panic = ""
    /\ cloned.some
    /\ cloned' =
        IF ~cloned.val.diverged /\ cloned.val.ahead # <<>>
                /\ Head(cloned.val.ahead) = fn
        THEN [cloned EXCEPT !.val.self = r.self, !.val.ahead = Tail(@)]
        ELSE [cloned EXCEPT !.val.self = r.self, !.val.ahead = <<>>,
                            !.val.diverged = TRUE]
    /\ panic' = r.panic
    /\ UNCHANGED <<countdown, cutoffs, initialized, edges, position_snapshot,
                   all_pairs, particles, calls, results, tally, moves,
                   traversal>>

OriginalEnsureUpdated ==
    /\ countdown.statistics.steps < MaxSteps
    /\ OriginalCall("ensure_updated", ensure_updated(Self, cell, particles))

OriginalUpdateNeighbors ==
    /\ panic = ""
    /\ OriginalCall("update_neighbors",
                    [self |-> update_neighbors(Self, cell, particles),
                     panic |-> "",
                     calls |-> <<Call("update_neighbors", TRUE, "", VecNew)>>])

CloneEnsureUpdated ==
    /\ cloned.some
    /\ cloned.val.self.countdown.statistics.steps < MaxSteps
    /\ CloneCall("ensure_updated", ensure_updated(cloned.val.self, cell, particles))

CloneUpdateNeighbors ==
    /\ cloned.some
    /\ CloneCall("update_neighbors",
                 [self |-> update_neighbors(cloned.val.self, cell, particles),
                  panic |-> ""])

\* The integrator moves particle 0 one site towards particle 1, while
\* neither copy is a call ahead of the other.
CloneMove ==
    /\ panic = ""
    /\ moves < MaxCloneMoves
    /\ cloned.some => cloned.val.ahead = <<>>
    /\ particles' = [particles EXCEPT !.position[0] = (@ + 1) % BoxLength]
    /\ moves' = moves + 1
    /\ calls' = <<>>
    /\ UNCHANGED <<countdown, cutoffs, initialized, edges, position_snapshot,
                   all_pairs, panic, results, tally, cloned, traversal>>

CloneNext ==
    \/ CloneList
    \/ OriginalEnsureUpdated
    \/ OriginalUpdateNeighbors
    \/ CloneEnsureUpdated
    \/ CloneUpdateNeighbors
    \/ CloneMove

\* A list and its clone, each receiving calls while a particle moves.
SpecClone == Init /\ [][CloneNext]_vars

(***************************************************************************)
(* each_i as a parallel iteration: (0..n).into_par_iter().for_each(op)     *)
(* hands every index of the range to one of the worker threads, in any     *)
(* order, with up to MaxWorkers invocations of op in flight.  op(i) is the *)
(* force loop's closure: it runs each_j(i, ..) and pushes every j it is    *)
(* given onto accumulator i.  The list is borrowed until each_i returns.   *)
(***************************************************************************)
each_j(backend, i) ==
    IF backend = "AllPairs"
    THEN AllPairs_each_j(all_pairs, i)
    ELSE DirectedLinkedList_each_j(Self, i)

\* each_i asserts initialization and starts the parallel iteration over the
\* range r.visited.
ParallelEachI(backend, r) ==
    /\ panic = ""
    /\ ~traversal.active
    /\ r.panic = ""
    /\ traversal' = [active |-> TRUE, backend |-> backend,
                     pending |-> r.visited, running |-> {},
                     visits |-> [i \in r.visited |-> 0],
                     acc |-> [i \in r.visited |-> VecNew],
                     order |-> <<>>]
    /\ calls' = <<>>
    /\ UNCHANGED <<countdown, cutoffs, initialized, edges, position_snapshot,
                   all_pairs, particles, panic, results, tally, moves,
                   cloned>>

DirectedParallelEachI ==
    ParallelEachI("Directed", DirectedLinkedList_each_i(Self))

AllPairsParallelEachI ==
    ParallelEachI("AllPairs", AllPairs_each_i(all_pairs))

\* A free worker thread takes an index of the range and invokes op on it.
WorkerTake ==
    /\ panic = ""
    /\ traversal.active
    /\ Cardinality(traversal.running) < MaxWorkers
    /\ \E i \in traversal.pending :
        traversal' = [traversal EXCEPT
            !.pending = @ \ {i},
            !.running = @ \cup {[i |-> i, k |-> 0]},
            !.visits[i] = @ + 1,
            !.order = Append(@, i)]
    /\ UNCHANGED <<countdown, cutoffs, initialized, edges, position_snapshot,
                   all_pairs, particles, panic, calls, results, tally, moves,
                   cloned>>

\* One invocation of op goes on: each_j hands it the next j, which it pushes
\* onto its accumulator, or each_j is over and op returns.
WorkerStep ==
    /\ panic = ""
    /\ traversal.active
    /\ \E t \in traversal.running :
        LET r == each_j(traversal.backend, t.i)
        IN  /\ panic' = r.panic
            /\ traversal' =
                IF r.panic = "" /\ t.k < VecLen(r.visited)
                THEN [traversal EXCEPT
                        !.running = (@ \ {t}) \cup {[t EXCEPT !.k = @ + 1]},
                        !.acc[t.i] = VecPush(@, r.visited[t.k])]
                ELSE [traversal EXCEPT !.running = @ \ {t}]
    /\ UNCHANGED <<countdown, cutoffs, initialized, edges, position_snapshot,
                   all_pairs, particles, calls, results, tally, moves,
                   cloned>>

\* for_each returns when every index was handed out and every op returned.
ParallelReturn ==
    /\ panic = ""
    /\ traversal.active
    /\ traversal.pending = {}
    /\ traversal.running = {}
    /\ calls' = <<Call(IF traversal.backend = "AllPairs"
                       THEN "AllPairs::each_i::for_each"
                       ELSE "DirectedLinkedList::each_i::for_each",
                       TRUE, "",
                       [visits |-> traversal.visits, acc |-> traversal.acc,
                        order |-> traversal.order])>>
    /\ traversal' = NoTraversal
    /\ UNCHANGED <<countdown, cutoffs, initialized, edges, position_snapshot,
                   all_pairs, particles, panic, results, tally, moves,
                   cloned>>

ParallelNext ==
    \/ ~traversal.active /\ ~initialized /\ UpdateNeighbors
    \/ ~traversal.active /\ AllPairsEnsureUpdated
    \/ DirectedParallelEachI
    \/ AllPairsParallelEachI
    \/ WorkerTake
    \/ WorkerStep
    \/ ParallelReturn

\* Both lists are built over particles at rest and traversed in parallel.
SpecParallel == InitStatic /\ [][ParallelNext]_vars


(***************************************************************************)
(* Properties                                                              *)
(***************************************************************************)
\* The particles' positions and their number.
x == particles.position

N == VecLen(particles.position)

\* The endpoints stored in entry i.
Stored(i) == {edges[i][k] : k \in DOMAIN edges[i]}

\* The last operation ended with a rebuild (update_neighbors ran last).
Rebuilt == calls # <<>> /\ calls[Len(calls)].fn = "update_neighbors"

\* The squared thresholds as the specification states them.
MaxCutoffSquared == cutoffs.max_cutoff * cutoffs.max_cutoff

SkinSquared == cutoffs.skin * cutoffs.skin

UpdateCutoffSquared ==
    (cutoffs.max_cutoff + 2 * cutoffs.skin) * (cutoffs.max_cutoff + 2 * cutoffs.skin)

\* C1: immediately after update_neighbors, edges has one entry per particle
\* and entry i holds exactly the j < i with distance2(x_i, x_j) below
\* (max_cutoff + 2 skin)^2, each once; so every pair closer than max_cutoff
\* is stored, whatever the list held before.
C1_RebuildIsExact ==
    Rebuilt =>
        /\ VecLen(edges) = N
        /\ \A i \in 0..N - 1 :
            LET near == {j \in 0..i - 1 :
                            distance2(cell, x[i], x[j]) < UpdateCutoffSquared}
            IN  /\ Stored(i) = near
                /\ VecLen(edges[i]) = Cardinality(near)
                /\ \A j \in 0..i - 1 :
                    distance2(cell, x[i], x[j]) < MaxCutoffSquared
                        => VecContains(edges[i], j)

\* A rebuild of a list that had been built before, after particles moved:
\* entry 2 holds particle 0 and not particle 1.
C1_Witness ==
    /\ Rebuilt
    /\ countdown.statistics.updates >= 1
    /\ moves > 0
    /\ Stored(2) = {0}
    /\ Stored(1) = {0}

\* No particle is further than skin from its snapshot position: what
\* Cutoffs::needs_update tests, returning false.
WithinSkin ==
    /\ VecLen(position_snapshot) = N
    /\ \A k \in 0..N - 1 :
        distance2(cell, position_snapshot[k], x[k]) <= SkinSquared

\* C2: after a rebuild, while no particle's squared displacement from
\* position_snapshot exceeds skin^2, every pair j < i whose current squared
\* distance is below max_cutoff^2 has j in edges[i].
C2_DriftGuardSound ==
    (initialized /\ WithinSkin) =>
        \A i \in 0..N - 1 : \A j \in 0..i - 1 :
            distance2(cell, x[i], x[j]) < MaxCutoffSquared
                => i \in DOMAIN edges /\ VecContains(edges[i], j)

\* Two particles that were further apart than max_cutoff at the rebuild
\* have each moved, by no more than skin, and are now closer than max_cutoff.
C2_Witness ==
    /\ initialized
    /\ WithinSkin
    /\ \E i \in 0..N - 1 : \E j \in 0..i - 1 :
        /\ distance2(cell, x[i], x[j]) < MaxCutoffSquared
        /\ distance2(cell, position_snapshot[i], position_snapshot[j]) > MaxCutoffSquared
        /\ x[i] # position_snapshot[i]
        /\ x[j] # position_snapshot[j]

\* C8: in every reachable state every j stored in edges[i] is below i.
C8_Triangular ==
    \A i \in DOMAIN edges : \A k \in DOMAIN edges[i] : edges[i][k] < i

\* A list rebuilt by ensure_updated after particles moved, whose last entry
\* holds both lower particles.
C8_Witness ==
    /\ Rebuilt
    /\ Len(calls) > 1
    /\ moves > 0
    /\ Stored(2) = {0, 1}

\* The pairs closer than max_cutoff among those a list enumerates.
WithinMaxCutoff(pairs) ==
    {p \in pairs : distance2(cell, x[p[1]], x[p[2]]) < MaxCutoffSquared}

\* The last operation was an ensure_updated call on the Directed list, and
\* it returned.
StepDone ==
    /\ calls # <<>>
    /\ calls[1].fn = "needs_update_check"
    /\ panic = ""

C4_Cadence ==
    \A n \in 1..Len(results) :
        results[n] <=>
            /\ n >= countdown.delay + 1
            /\ (n - (countdown.delay + 1)) % countdown.steps_per_update_check = 0

\* The run of the unit test: delay 5, stride 2, thirteen calls.
C4_Witness ==
    /\ countdown.delay = 5
    /\ countdown.steps_per_update_check = 2
    /\ results = <<FALSE, FALSE, FALSE, FALSE, FALSE,
                   TRUE, FALSE, TRUE, FALSE, TRUE, FALSE, TRUE, FALSE>>

\* What n needs_update_check calls on the CountDown cd return, in order.
RECURSIVE RunChecks(_, _)
RunChecks(cd, n) ==
    IF n = 0
    THEN <<>>
    ELSE LET r == needs_update_check(cd)
         IN  <<r.ret>> \o RunChecks(r.cd, n - 1)

\* C5: after any calls followed by a needs_sanity_check call, the results
\* of the needs_update_check calls that follow are those of a freshly
\* constructed CountDown with the same configuration.
C5_SanityCheckRestarts ==
    tally.sanity_calls > 0 =>
        results = RunChecks(CountDown_new(countdown.delay,
                                          countdown.steps_per_update_check,
                                          countdown.updates_per_sanity_check),
                            Len(results))

\* A needs_sanity_check call made in the middle of the checking window
\* (the call before it had returned true), followed by a delay window and
\* two update checks.
C5_Witness ==
    /\ tally.sanity_calls = 1
    /\ tally.update_check_calls > Len(results) + countdown.delay + 1
    /\ countdown.delay = 2
    /\ countdown.steps_per_update_check = 2
    /\ results = <<FALSE, FALSE, TRUE, FALSE, TRUE>>

\* C9: statistics.steps counts the needs_update_check calls and
\* update_checks those that returned true; statistics.updates counts the
\* needs_sanity_check calls and sanity_checks those that returned true.
C9_StatisticsAccounting ==
    /\ countdown.statistics.steps = tally.update_check_calls
    /\ countdown.statistics.update_checks = tally.update_check_true
    /\ countdown.statistics.updates = tally.sanity_calls
    /\ countdown.statistics.sanity_checks = tally.sanity_true
    /\ countdown.statistics.update_checks <= countdown.statistics.steps
    /\ countdown.statistics.sanity_checks <= countdown.statistics.updates

\* Calls of both kinds, some returning true and some false.
C9_Witness ==
    /\ tally.update_check_true >= 2
    /\ tally.update_check_calls > tally.update_check_true
    /\ tally.sanity_true >= 1
    /\ tally.sanity_calls > tally.sanity_true
    /\ Len(results) < tally.update_check_calls

\* The last operation was a needs_sanity_check call (alone or inside
\* ensure_updated), which returned ret.
SanityCheckReturned(ret) ==
    \E k \in 1..Len(calls) :
        calls[k].fn = "needs_sanity_check" /\ calls[k].panic = "" /\ calls[k].ret = ret

Ran(cs, fn) == \E k \in 1..Len(cs) : cs[k].fn = fn

Returned(cs, fn, ret) ==
    \E k \in 1..Len(cs) : cs[k].fn = fn /\ cs[k].panic = "" /\ cs[k].ret = ret

\* The calls cs are those of one ensure_updated call on the Directed list.
IsEnsureUpdated(cs) == cs # <<>> /\ cs[1].fn = "needs_update_check"

BothGatesTrue(cs) ==
    Returned(cs, "needs_update_check", TRUE) /\ Returned(cs, "needs_update", TRUE)

EitherGateFalse(cs) ==
    Returned(cs, "needs_update_check", FALSE) \/ Returned(cs, "needs_update", FALSE)

\* What a call in which a gate was false leaves unchanged: all of the list
\* but step_counter, statistics.steps and statistics.update_checks.
FrameOfGatedCall ==
    /\ UNCHANGED <<edges, position_snapshot, initialized, cutoffs>>
    /\ countdown' = [countdown EXCEPT
            !.step_counter = countdown'.step_counter,
            !.statistics.steps = countdown'.statistics.steps,
            !.statistics.update_checks = countdown'.statistics.update_checks]
    /\ countdown'.update_counter = countdown.update_counter
    /\ countdown'.statistics.updates = countdown.statistics.updates
    /\ countdown'.statistics.sanity_checks = countdown.statistics.sanity_checks

\* C6, as stated: in an ensure_updated call the drift gate is evaluated only
\* if the temporal gate returned true, update_neighbors runs iff both gates
\* returned true, and a call in which either gate is false changes only
\* step_counter, statistics.steps and possibly statistics.update_checks.
C6_GatesAsStated ==
    [][IsEnsureUpdated(calls') =>
        /\ Ran(calls', "needs_update") => Returned(calls', "needs_update_check", TRUE)
        /\ Ran(calls', "update_neighbors") <=> BothGatesTrue(calls')
        /\ EitherGateFalse(calls') => FrameOfGatedCall
      ]_vars

\* C6, amended: update_neighbors runs iff both gates returned true and the
\* sanity check, if it ran, did not end the process; the rest as stated.
C6_Gates ==
    [][IsEnsureUpdated(calls') =>
        /\ Ran(calls', "needs_update") => Returned(calls', "needs_update_check", TRUE)
        /\ Ran(calls', "update_neighbors") <=> (BothGatesTrue(calls') /\ panic' = "")
        /\ EitherGateFalse(calls') => FrameOfGatedCall
      ]_vars

\* An ensure_updated call whose update check fired and whose drift gate was
\* false, on a built list whose particles have moved.
C6_Witness ==
    /\ IsEnsureUpdated(calls)
    /\ Returned(calls, "needs_update_check", TRUE)
    /\ Returned(calls, "needs_update", FALSE)
    /\ initialized
    /\ x # position_snapshot

\* C7, as stated: when ensure_updated runs sanity_check it runs it before
\* update_neighbors, on the edges the list held when the call began, and
\* never in a call that does not also rebuild.
C7_AuditAsStated ==
    [][(IsEnsureUpdated(calls') /\ Ran(calls', "sanity_check")) =>
        /\ \A k \in 1..Len(calls') : \A m \in 1..Len(calls') :
            (calls'[k].fn = "sanity_check" /\ calls'[m].fn = "update_neighbors")
                => /\ k < m
                   /\ calls'[k].edges = edges
        /\ Ran(calls', "update_neighbors")
      ]_vars

\* C7, amended: ... and never in a call that does not also rebuild, unless
\* sanity_check itself ends the process (then no rebuild follows).
C7_Audit ==
    [][(IsEnsureUpdated(calls') /\ Ran(calls', "sanity_check")) =>
        /\ \A k \in 1..Len(calls') :
            calls'[k].fn = "sanity_check" =>
                /\ calls'[k].edges = edges
                /\ \A m \in 1..Len(calls') :
                    calls'[m].fn = "update_neighbors" => k < m
        /\ Ran(calls', "update_neighbors") <=> panic' = ""
        /\ panic' # "" => UNCHANGED <<edges, position_snapshot>>
      ]_vars

\* An ensure_updated call that audited the outgoing list, found it sound
\* and then built a list that differs from it.
C7_Witness ==
    /\ IsEnsureUpdated(calls)
    /\ Rebuilt
    /\ \E k \in 1..Len(calls) :
        /\ calls[k].fn = "sanity_check"
        /\ calls[k].panic = ""
        /\ calls[k].edges # edges

\* In the calls cs the m-th, a rebuild, comes right after a
\* needs_sanity_check call, with at most the sanity_check it asked for in
\* between.
AfterNeedsSanityCheck(cs, m) ==
    \/ m >= 2 /\ cs[m - 1].fn = "needs_sanity_check"
    \/ m >= 3 /\ cs[m - 1].fn = "sanity_check"
              /\ cs[m - 2].fn = "needs_sanity_check"

\* C11: every execution of update_neighbors, inside ensure_updated or
\* called directly, comes right after a needs_sanity_check call, so that
\* after it step_counter is 0 and statistics.updates has counted it.
C11_ResetTracksRebuilds ==
    [][Ran(calls', "update_neighbors") =>
        /\ \A m \in 1..Len(calls') :
            calls'[m].fn = "update_neighbors" => AfterNeedsSanityCheck(calls', m)
        /\ countdown'.step_counter = 0
        /\ countdown'.statistics.updates = countdown.statistics.updates + 1
      ]_vars

\* The list is the one update_neighbors builds for the positions pos:
\* entry i holds the j < i closer than the update cutoff, each once, and
\* the snapshot is pos.
BuiltFor(pos) ==
    /\ position_snapshot = pos
    /\ VecLen(edges) = VecLen(pos)
    /\ \A i \in 0..VecLen(pos) - 1 :
        LET near == {j \in 0..i - 1 :
                        distance2(cell, pos[i], pos[j]) < UpdateCutoffSquared}
        IN  Stored(i) = near /\ VecLen(edges[i]) = Cardinality(near)

\* C12: after a first build with update_neighbors on particles that never
\* move, ensure_updated calls never rebuild and never fail the sanity
\* check: statistics.updates stays 0 and edges and position_snapshot stay
\* those of the first build, while the n-th call runs the update check iff
\* n = delay + 1 + k * steps_per_update_check for some k >= 0.
C12_StaticNeverRebuilds ==
    initialized =>
        /\ countdown.statistics.updates = 0
        /\ countdown.statistics.sanity_checks = 0
        /\ panic # "Invalid neighborlist"
        /\ IsEnsureUpdated(calls) =>
            panic = "" /\ ~Ran(calls, "update_neighbors")
        /\ BuiltFor(x)
        /\ Len(results) = countdown.statistics.steps
        /\ \A n \in 1..Len(results) :
            results[n] <=>
                \E k \in 0..n :
                    n = countdown.delay + 1 + k * countdown.steps_per_update_check

\* Six steps on a built list with delay 1 and stride 2: the update check
\* ran at steps 2, 4 and 6 and found no drift each time.
C12_Witness ==
    /\ initialized
    /\ countdown.delay = 1
    /\ countdown.steps_per_update_check = 2
    /\ countdown.updates_per_sanity_check = Some(1)
    /\ results = <<FALSE, TRUE, FALSE, TRUE, FALSE, TRUE>>
    /\ countdown.statistics.update_checks = 3
    /\ Returned(calls, "needs_update", FALSE)
    /\ \E i \in DOMAIN edges : edges[i] # VecNew

\* One particle stands 2 skin from its snapshot position and the others
\* stand where they stood when the list was built.
DisplacedTwoSkin ==
    /\ initialized
    /\ VecLen(position_snapshot) = N
    /\ \E k \in 0..N - 1 :
        /\ distance2(cell, position_snapshot[k], x[k])
                = (2 * cutoffs.skin) * (2 * cutoffs.skin)
        /\ \A m \in 0..N - 1 : m # k => x[m] = position_snapshot[m]

\* The number of calls of fn among the calls cs.
Count(cs, fn) == Cardinality({k \in 1..Len(cs) : cs[k].fn = fn})

C14_IdempotentRebuild ==
    (Rebuilt /\ panic = "") =>
        LET again == update_neighbors(Self, cell, particles)
        IN  /\ again.edges = edges
            /\ again.position_snapshot = position_snapshot
            /\ again.initialized = initialized

\* A direct update_neighbors call on a list that ensure_updated had rebuilt
\* before, for other positions.
C14_Witness ==
    /\ Rebuilt
    /\ Len(calls) = 1
    /\ panic = ""
    /\ countdown.statistics.updates >= 1
    /\ moves = MaxMoves
    /\ Stored(2) = {0, 1}

\* Both lists have been updated over the particles, which have not moved
\* since, and the process runs.
BothUpdatedStatic ==
    /\ initialized
    /\ all_pairs.initialized
    /\ all_pairs.natoms = N
    /\ position_snapshot = x
    /\ panic = ""

\* C15, as stated: for a static configuration on which both backends have
\* been updated, the pairs (i, j) visited through each_i / each_j by
\* AllPairs and by DirectedLinkedList are the same set.
C15_SamePairsVisited ==
    BothUpdatedStatic =>
        DirectedLinkedList_pairs(Self) = AllPairs_pairs(all_pairs)

\* C15, amended: the Directed list visits those pairs AllPairs visits whose
\* squared distance is below the update cutoff, so the two sets coincide
\* once filtered to r2 < max_cutoff^2.
C15_SamePairsWithinCutoff ==
    BothUpdatedStatic =>
        /\ DirectedLinkedList_pairs(Self) =
            {p \in AllPairs_pairs(all_pairs) :
                distance2(cell, x[p[1]], x[p[2]]) < UpdateCutoffSquared}
        /\ WithinMaxCutoff(DirectedLinkedList_pairs(Self))
            = WithinMaxCutoff(AllPairs_pairs(all_pairs))
        /\ AllPairs_pairs(all_pairs) =
            {p \in (0..N - 1) \X (0..N - 1) : p[2] < p[1]}

\* Both lists updated and stepped over particles at rest, with one pair
\* closer than max_cutoff and one pair that only AllPairs visits.
C15_Witness ==
    /\ BothUpdatedStatic
    /\ countdown.statistics.update_checks >= 1
    /\ WithinMaxCutoff(DirectedLinkedList_pairs(Self)) # {}
    /\ AllPairs_pairs(all_pairs) \ DirectedLinkedList_pairs(Self) # {}

\* How many times the Directed list stores the edge from a to b, and how
\* many times AllPairs visits b in each_j(a).
Edges(a, b) ==
    IF a \in DOMAIN edges
    THEN Cardinality({k \in DOMAIN edges[a] : edges[a][k] = b})
    ELSE 0

AllPairsVisits(a, b) ==
    LET v == AllPairs_each_j(all_pairs, a).visited
    IN  IF a \in AllPairs_each_i(all_pairs).visited
        THEN Cardinality({k \in DOMAIN v : v[k] = b})
        ELSE 0

\* C16, as stated: for every pair {a, b} with a # b exactly one directed
\* edge is stored, from max(a, b) to min(a, b), so enumeration visits each
\* unordered pair exactly once, never in both orders and never twice.
C16_OneEdgePerPair ==
    (initialized /\ panic = "") =>
        \A a \in 0..N - 1 : \A b \in 0..a - 1 :
            Edges(a, b) = 1 /\ Edges(b, a) = 0

\* C16, amended: a pair that was closer than the update cutoff at the last
\* rebuild has exactly one edge, from max(a, b) to min(a, b); any other
\* pair has none; AllPairs visits every pair exactly once, from max to min.
C16_EdgeConvention ==
    /\ \A a \in DOMAIN edges : \A k \in DOMAIN edges[a] :
        edges[a][k] < a /\ Edges(a, edges[a][k]) = 1
    /\ initialized =>
        \A a \in DOMAIN position_snapshot : \A b \in 0..a - 1 :
            /\ Edges(b, a) = 0
            /\ Edges(a, b) =
                IF distance2(cell, position_snapshot[a], position_snapshot[b])
                        < UpdateCutoffSquared
                THEN 1 ELSE 0
    /\ (all_pairs.initialized /\ panic = "") =>
        \A a \in 0..all_pairs.natoms - 1 : \A b \in 0..a - 1 :
            AllPairsVisits(a, b) = 1 /\ AllPairsVisits(b, a) = 0

\* A list rebuilt by ensure_updated after particles moved that stores one
\* pair and leaves another out, beside an updated AllPairs list.
C16_Witness ==
    /\ initialized
    /\ all_pairs.initialized
    /\ panic = ""
    /\ countdown.statistics.updates >= 1
    /\ \E a \in 0..N - 1 : \E b \in 0..a - 1 : Edges(a, b) = 1
    /\ \E a \in 0..N - 1 : \E b \in 0..a - 1 : Edges(a, b) = 0

\* The Vec v is strictly increasing.
Ascending(v) ==
    \A k \in DOMAIN v : \A m \in DOMAIN v : k < m => v[k] < v[m]

\* C17: within one each_j(i, op) call the endpoints are visited in strictly
\* ascending j on both backends: every edges[i] is strictly increasing in
\* every reachable state, and AllPairs visits 0, 1, .., i - 1 in that order.
C17_AscendingEndpoints ==
    /\ \A i \in DOMAIN edges :
        /\ Ascending(edges[i])
        /\ DirectedLinkedList_each_j(Self, i).visited = edges[i]
    /\ \A i \in 0..N :
        LET v == AllPairs_each_j(all_pairs, i).visited
        IN  /\ Ascending(v)
            /\ VecLen(v) = i
            /\ \A k \in 0..i - 1 : v[k] = k

\* A list rebuilt by ensure_updated after particles moved, whose last
\* entry holds two endpoints.
C17_Witness ==
    /\ Rebuilt
    /\ IsEnsureUpdated(calls)
    /\ moves > 0
    /\ 2 \in DOMAIN edges
    /\ DirectedLinkedList_each_j(Self, 2).visited = VecPush(VecPush(VecNew, 0), 1)

\* The last operation was the enumeration fn, and it visited nothing and
\* ended in the initialization assertion.
EndedInAssertion(fn, nothing) ==
    (calls # <<>> /\ calls[1].fn = fn) =>
        /\ panic = NotInitialized
        /\ calls[1].panic = NotInitialized
        /\ calls[1].edges.visited = nothing

\* C18: on either backend, each_i or each_j called before any
\* ensure_updated or update_neighbors call ends in the initialization
\* assertion and invokes the visitor zero times.
C18_UninitializedEnumerationFatal ==
    /\ ~all_pairs.initialized =>
        /\ EndedInAssertion("AllPairs::each_i", {})
        /\ EndedInAssertion("AllPairs::each_j", VecNew)
    /\ ~initialized =>
        /\ EndedInAssertion("DirectedLinkedList::each_i", {})
        /\ EndedInAssertion("DirectedLinkedList::each_j", VecNew)

\* C19: construction with skin <= 0 or steps_per_update_check = 0 ends
\* the process before a list is returned, so no constructed list carries
\* such a configuration.
C19_InvalidConfigurationRejected ==
    panic = "" =>
        /\ cutoffs.skin > 0
        /\ countdown.steps_per_update_check # 0

\* C20: needs_update fails with the length assertion whenever the snapshot
\* and the particles differ in number, before comparing any position; and
\* an ensure_updated call made on a built list while they differ ends the
\* process instead of returning with the stale list.
C20_LengthMismatchFatal ==
    VecLen(position_snapshot) # N =>
        /\ LET r == needs_update(cutoffs, position_snapshot, cell, particles)
           IN  r.panic = "assertion failed: (left == right)" /\ r.compared = 0
        /\ (IsEnsureUpdated(calls) /\ initialized) => panic # ""

\* The pairs j < i closer than max_cutoff that the list does not hold.
MissingPairs ==
    {p \in (0..N - 1) \X (0..N - 1) :
        /\ p[2] < p[1]
        /\ distance2(cell, x[p[1]], x[p[2]]) < MaxCutoffSquared
        /\ (p[1] \notin DOMAIN edges \/ p[2] \notin Stored(p[1]))}

\* The pair p comes before q in ascending i, then ascending j.
Before(p, q) == p[1] < q[1] \/ (p[1] = q[1] /\ p[2] <= q[2])

Enumerated(fn) == calls # <<>> /\ calls[1].fn = fn

\* C22: after a rebuild with N particles each_j(i, op) returns for every
\* i < N on both backends, and on the Directed list each_j(i, op) with
\* i >= |edges| ends the process without invoking op.
C22_EachJIndex ==
    /\ Enumerated("DirectedLinkedList::each_j") =>
        LET i == calls[1].edges.i
        IN  /\ (initialized /\ i < N) =>
                /\ panic = ""
                /\ calls[1].panic = ""
                /\ calls[1].edges.visited = edges[i]
            /\ i >= VecLen(edges) =>
                /\ panic # ""
                /\ calls[1].panic = panic
                /\ calls[1].edges.visited = VecNew
    /\ Enumerated("AllPairs::each_j") =>
        LET i == calls[1].edges.i
        IN  (all_pairs.initialized /\ i < N) =>
                /\ panic = ""
                /\ VecLen(calls[1].edges.visited) = i

\* each_j(N, op) on a Directed list built for N particles and stepped.
C22_Witness ==
    /\ Enumerated("DirectedLinkedList::each_j")
    /\ initialized
    /\ VecLen(edges) = N
    /\ countdown.statistics.steps > 0
    /\ calls[1].edges.i = N
    /\ panic # ""

\* The fields of the original list.
OriginalFields == <<countdown, cutoffs, initialized, edges, position_snapshot>>

\* C23: once a clone exists, no call changes both copies (a call on one
\* leaves the other's edges, position_snapshot, initialized flag, countdown
\* counters and statistics as they were), the clone is made equal to the
\* original, and whenever the clone has received exactly the calls the
\* original has received since the clone was made, the copies are equal.
C23_CloneIndependence ==
    [][/\ (cloned.some /\ cloned'.some) =>
            \/ cloned'.val.self = cloned.val.self
            \/ UNCHANGED OriginalFields
       /\ (~cloned.some /\ cloned'.some) =>
            /\ cloned'.val.self = Self
            /\ UNCHANGED OriginalFields
       /\ (cloned'.some /\ ~cloned'.val.diverged /\ cloned'.val.ahead = <<>>
                /\ panic' = "") =>
            cloned'.val.self = Self']_vars

\* The clone was made from a list with a step counted, the particle moved past
\* the skin, and both copies were then given the same call and rebuilt.
C23_Witness ==
    /\ cloned.some
    /\ ~cloned.val.diverged
    /\ cloned.val.ahead = <<>>
    /\ panic = ""
    /\ cloned.val.self = Self
    /\ countdown.statistics.updates >= 1
    /\ initialized
    /\ position_snapshot = particles.position
    /\ moves = MaxCloneMoves
    /\ countdown.statistics.steps >= 2

\* The fields of the two backends.
BackendFields ==
    <<edges, position_snapshot, initialized, cutoffs, countdown, all_pairs>>

ReadOnlyMethods ==
    {"DirectedLinkedList::each_i", "DirectedLinkedList::each_j",
     "DirectedLinkedList::print_statistics",
     "AllPairs::each_i", "AllPairs::each_j", "AllPairs::print_statistics"}

\* The first call recorded for ensure_updated and update_neighbors.
UpdatingMethods ==
    {"needs_update_check", "update_neighbors", "AllPairs::update_neighbors"}

\* C24: each_i, each_j and print_statistics on either backend, returning or
\* failing, leave edges, position_snapshot, initialized, natoms, the
\* counters and all statistics unchanged, and a step that changes any of
\* them is an ensure_updated or an update_neighbors.
C24_EnumerationReadOnly ==
    [][/\ (calls' # <<>> /\ calls'[1].fn \in ReadOnlyMethods) =>
            UNCHANGED BackendFields
       /\ ~(UNCHANGED BackendFields) =>
            calls' # <<>> /\ calls'[1].fn \in UpdatingMethods]_vars

\* Statistics of a stepped, built Directed list were printed, and each_j on
\* it visited a neighbour.
C24_Witness ==
    /\ initialized
    /\ all_pairs.initialized
    /\ countdown.statistics.steps >= 2
    /\ countdown.step_counter >= 1
    /\ \/ /\ Enumerated("DirectedLinkedList::print_statistics")
          /\ calls[1].edges.printed = <<countdown.statistics>>
       \/ /\ Enumerated("DirectedLinkedList::each_j")
          /\ calls[1].edges.visited # VecNew

\* The record of the each_i call that has just returned.
ForEach == calls[1].edges

PastSkin ==
    {k \in 0..N - 1 :
        distance2(cell, position_snapshot[k], x[k]) > skin2(cutoffs)}

\* The least element of the non-empty set S of numbers.
Least(S) == CHOOSE k \in S : \A m \in S : k <= m

\* C26: with |snapshot| = |particles|, needs_update returns true iff some
\* particle's squared minimum-image displacement from its snapshot position
\* is greater than skin^2 (equal does not count), has compared the particles
\* up to the first such one and no further, and the ensure_updated step in
\* which it runs leaves the particles as they were and, when it returns
\* false, the snapshot too.
C26_NeedsUpdate ==
    [][VecLen(position_snapshot) = N =>
        LET r == needs_update(cutoffs, position_snapshot, cell, particles)
        IN  /\ r.panic = ""
            /\ r.ret = (PastSkin # {})
            /\ r.compared = (IF PastSkin # {} THEN Least(PastSkin) + 1 ELSE N)
            /\ (IsEnsureUpdated(calls') /\ Ran(calls', "needs_update")) =>
                /\ Returned(calls', "needs_update", r.ret)
                /\ particles' = particles
                /\ ~r.ret => position_snapshot' = position_snapshot]_vars

\* needs_update ran in the last step and returned false with a particle
\* exactly skin away from its snapshot position.
C26_WitnessAtSkin ==
    /\ IsEnsureUpdated(calls)
    /\ Returned(calls, "needs_update", FALSE)
    /\ PastSkin = {}
    /\ \E k \in 0..N - 1 :
        distance2(cell, position_snapshot[k], x[k]) = skin2(cutoffs)
    /\ countdown.statistics.updates >= 1

\* C27: an ensure_updated call on a list that was never built returns and
\* leaves it initialized, with edges and position_snapshot of length N,
\* whatever the delay.
C27_EnsureUpdatedInitializes ==
    [][(~initialized /\ IsEnsureUpdated(calls')) =>
        /\ panic' = ""
        /\ initialized'
        /\ VecLen(edges') = N
        /\ VecLen(position_snapshot') = N]_vars

\* The greater of a and b.
Max(a, b) == IF a >= b THEN a ELSE b

\* The number of ensure_updated calls from now to the next one whose temporal
\* gate opens.
CallsToNextCheck ==
    IF countdown.step_counter < countdown.delay + 1
    THEN countdown.delay + 1 - countdown.step_counter
    ELSE countdown.steps_per_update_check
            - ((countdown.step_counter - (countdown.delay + 1))
                    % countdown.steps_per_update_check)

\* C28: on an initialized list with steps_per_update_check >= 1 and as many
\* snapshot entries as particles, while some particle is further than the
\* skin from its snapshot position the next temporal check is at most
\* max(delay + 1, steps_per_update_check) ensure_updated calls away, every
\* ensure_updated call that does not rebuild brings it one call nearer, no
\* other step moves it, and the call that reaches it rebuilds unless the
\* sanity check fails there.
C28_BoundedResponse ==
    [][(/\ initialized
        /\ countdown.steps_per_update_check >= 1
        /\ VecLen(position_snapshot) = N
        /\ PastSkin # {}) =>
            /\ CallsToNextCheck >= 1
            /\ CallsToNextCheck <=
                Max(countdown.delay + 1, countdown.steps_per_update_check)
            /\ IsEnsureUpdated(calls') =>
                \/ panic' # "" /\ Ran(calls', "sanity_check")
                \/ /\ CallsToNextCheck = 1
                   /\ Ran(calls', "update_neighbors")
                   /\ position_snapshot' = x
                \/ /\ CallsToNextCheck > 1
                   /\ ~Ran(calls', "update_neighbors")
                   /\ CallsToNextCheck' = CallsToNextCheck - 1
                   /\ panic' = ""
            /\ ~IsEnsureUpdated(calls') =>
                CallsToNextCheck' = CallsToNextCheck]_vars

\* A particle is past the skin, an ensure_updated call has just gone by
\* without a check although the delay was over, and the next call is the
\* one that must rebuild.
C28_Witness ==
    /\ initialized
    /\ PastSkin # {}
    /\ IsEnsureUpdated(calls)
    /\ Returned(calls, "needs_update_check", FALSE)
    /\ countdown.step_counter > countdown.delay + 1
    /\ CallsToNextCheck = 1
    /\ countdown.statistics.update_checks >= 1
    /\ panic = ""

\* The first call recorded for ensure_updated, update_neighbors and
\* sanity_check on the Directed list and for AllPairs' two methods.
ParticleTakingMethods ==
    {"needs_update_check", "update_neighbors", "sanity_check",
     "AllPairs::update_neighbors"}

\* C29: an ensure_updated, update_neighbors or sanity_check call on either
\* backend, returning or failing, leaves the number of particles and every
\* position as they were, and after a rebuild position_snapshot equals
\* those positions.
C29_ParticlesUntouched ==
    [][(calls' # <<>> /\ calls'[1].fn \in ParticleTakingMethods) =>
        /\ VecLen(particles'.position) = N
        /\ \A k \in 0..N - 1 : particles'.position[k] = x[k]
        /\ Ran(calls', "update_neighbors") => position_snapshot' = x
        /\ Ran(calls', "AllPairs::update_neighbors") => all_pairs'.natoms = N]_vars

\* ensure_updated has just rebuilt the list over particles that had moved
\* since the build before.
C29_Witness ==
    /\ IsEnsureUpdated(calls)
    /\ Ran(calls, "update_neighbors")
    /\ position_snapshot = x
    /\ x # Lattice.position
    /\ all_pairs.initialized
    /\ moves >= 2

\* C30: for every updates_per_sanity_check, Some(0) included, each
\* needs_sanity_check call returns without failing, and with Some(0) it
\* never returns true.
C30_NeedsSanityCheckTotal ==
    \A k \in 1..Len(calls) :
        calls[k].fn = "needs_sanity_check" =>
            /\ calls[k].panic = ""
            /\ countdown.updates_per_sanity_check = Some(0) => ~calls[k].ret

====
